---- MODULE Spec2Model ----
(***************************************************************************)
(* A state-machine model of src/sketch.js: a p5.js sketch that emits       *)
(* falling, fading "tears" at the pointer while a button or the space bar  *)
(* is held, and a slideshow timer that drops collage images on the canvas. *)
(*                                                                         *)
(* The file holds two variants of the same sketch: variant A is lines      *)
(* 1-275, variant B lines 276-545.  `variant` selects the one that runs.   *)
(*                                                                         *)
(* Time.  A Tear lives for `5 * 60` frames in variant A and `2.5 * 60` in  *)
(* variant B, i.e. 10 and 5 half-seconds of frames.  The number of frames  *)
(* in half a second (30 in the sketch) is the bound FramesPerHalfSecond,   *)
(* so that a Tear's whole life fits in a finite run.  Every other number   *)
(* is the sketch's own.                                                    *)
(*                                                                         *)
(* Positions and velocities are in half pixels, so that the gravity of 0.5 *)
(* pixel per frame is the integer 1.  Attributes that only reach the       *)
(* canvas (a Tear's size, a CollageImage's position and scale, the hue)    *)
(* are not part of the state.                                              *)
(***************************************************************************)
EXTENDS Integers, Sequences, FiniteSets

VARIABLES
    variant,            \* "A" (lines 1-275) or "B" (lines 276-545)
    frameCount,         \* p5's frameCount: the number of the frame being drawn
    now,                \* p5's millis(), in frame periods
    mouseX, mouseY,     \* p5's pointer coordinates
    tears,              \* let tears = []
    collageImages,      \* let collageImages = []
    isCrying,           \* let isCrying = false
    startTime,          \* let startTime = 0
    emissionRate,       \* let emissionRate = 3
    activeTearSet,      \* "A" for tearImagesSetA, "B" for tearImagesSetB
    slideshowInterval,  \* Null or the handle setInterval returned
    timers,             \* the runtime's table of live interval handles
    created,            \* number of Tear objects constructed so far
    ticks,              \* runs of the interval callback since setInterval
    idleFrames,         \* frames drawn since the emission was last under way
    canvasTears,        \* the Tear draw calls of the last frame, in order
    canvasCollage,      \* the CollageImage draw calls of the last frame
    inputs,             \* number of input events and interval callbacks so far
    event,              \* the handler the runtime called last
    eventKey            \* p5's key when it was called (for a key handler)

cryVars     == <<isCrying, startTime, idleFrames>>
slideVars   == <<slideshowInterval, timers, collageImages, ticks>>
frameVars   == <<frameCount, now, tears, created, canvasTears, canvasCollage,
                 emissionRate>>
pointerVars == <<mouseX, mouseY>>

\* The sketch's state: everything but the record of the events.
sketchVars == <<variant, activeTearSet, cryVars, slideVars, frameVars,
                pointerVars>>

vars == <<sketchVars, inputs, event, eventKey>>

----------------------------------------------------------------------------
(* Bounds *)

FramesPerHalfSecond == 1   \* 30 in the sketch (60 frames per second)
MaxFrame            == 10  \* frames drawn in a run of Spec
MaxLifeFrame        == 15  \* frames drawn in a run of SpecTears
MaxSlideFrame       == 6   \* frames drawn in a run of SpecSlides
MaxFadeFrame        == 53  \* frames drawn in a run of SpecFade
MaxInputs           == 2   \* input events and interval callbacks in a run
MaxSlideInputs      == 4   \* the same, in a run of SpecSlides
MaxTears            == 2   \* Tears constructed in a run
MaxHoldFrame        == 19  \* frames drawn in a run of SpecHold
MaxHeldTears        == 6   \* Tears constructed in a run of SpecHold
MaxTimers           == 2   \* interval handles the runtime may hold

Null == 0   \* slideshowInterval = null; handles are positive

Variants  == {"A", "B"}
Keys      == {" ", "s", "t", "x"}
Pointers  == {<<0, 0>>, <<40, 60>>}
VxSamples == {2}           \* a sample of random(-1.5, 1.5), in half pixels
VySamples == {-4}          \* a sample of random(-2, 0), in half pixels

----------------------------------------------------------------------------
(* Configuration *)

INITIAL_EMISSION_RATE == 3
GRAVITY               == 1     \* this.ay = 0.5, in half pixels
OPACITY_STEP          == 5
OPACITY_FULL          == 255

TEAR_FILENAMES_A(v) == {"tear1.png", "tear2.png", "tear3.png"}

TEAR_FILENAMES_B(v) ==
    IF v = "A" THEN {"tear6.png", "tear7.png", "tear8.png"}
               ELSE {"tear4.png", "tear5.png", "tear6.png"}

\* The images of the tear set a value of activeTearSet stands for.
TearImages(v, set) ==
    IF set = "A" THEN TEAR_FILENAMES_A(v) ELSE TEAR_FILENAMES_B(v)

\* this.lifespan = 5 * 60 (variant A), 2.5 * 60 (variant B)
Lifespan(v) ==
    IF v = "A" THEN 10 * FramesPerHalfSecond ELSE 5 * FramesPerHalfSecond

----------------------------------------------------------------------------
(* class Tear *)

NewTear(v, id, x, y, vx, vy, img) ==
    [id |-> id, x |-> x, y |-> y, vx |-> vx, vy |-> vy, ay |-> GRAVITY,
     lifespan |-> Lifespan(v), life |-> Lifespan(v), img |-> img]

\* Mutant: remaining life drops by 2 per advance.
TearUpdateByTwo(t) ==
    LET vy1 == t.vy + t.ay
    IN  [t EXCEPT !.vy = vy1, !.x = t.x + t.vx, !.y = t.y + vy1,
                  !.life = t.life - 2]

\* Mutant: the remaining life is not reduced.
TearUpdateNoAging(t) ==
    LET vy1 == t.vy + t.ay
    IN  [t EXCEPT !.vy = vy1, !.x = t.x + t.vx, !.y = t.y + vy1]

TearUpdate(t) ==
    LET vy1 == t.vy + t.ay
    IN  [t EXCEPT !.vy = vy1, !.x = t.x + t.vx, !.y = t.y + vy1,
                  !.life = t.life - 1]

\* Mutant: the scale is mapped to 0..1 instead of 0.1..1.
TearDisplayNoFloor(t) ==
    [id |-> t.id, life |-> t.life, x |-> t.x, y |-> t.y, img |-> t.img,
     lifespan |-> t.lifespan,
     alphaNum |-> 0 * t.lifespan + (255 - 0) * (t.life - 0),
     scaleNum |-> 0 * t.lifespan + (10 - 0) * (t.life - 0)]

\* The draw call of a Tear.  alpha = map(life, 0, lifespan, 0, 255) and
\* scaleFactor = map(life, 0, lifespan, 0.1, 1) are kept as numerators:
\* alpha = alphaNum / lifespan, scaleFactor = scaleNum / (10 * lifespan).
TearDisplay(t) ==
    [id |-> t.id, life |-> t.life, x |-> t.x, y |-> t.y, img |-> t.img,
     lifespan |-> t.lifespan,
     alphaNum |-> 0 * t.lifespan + (255 - 0) * (t.life - 0),
     scaleNum |-> 1 * t.lifespan + (10 - 1) * (t.life - 0)]

(* class CollageImage *)

\* The image, position and scale are drawn at random and only reach the canvas.
NewCollageImage == [opacity |-> 0]

\* Mutant: the fade-in also steps at full opacity.
CollageUpdateOvershoot(c) ==
    IF c.opacity <= OPACITY_FULL
    THEN [c EXCEPT !.opacity = c.opacity + OPACITY_STEP]
    ELSE c

CollageUpdate(c) ==
    IF c.opacity < OPACITY_FULL
    THEN [c EXCEPT !.opacity = c.opacity + OPACITY_STEP]
    ELSE c

\* tint(255, this.opacity): the opacity the image is drawn with
CollageDisplay(c) == c.opacity

----------------------------------------------------------------------------
(* draw *)

Splice(s, i) == SubSeq(s, 1, i - 1) \o SubSeq(s, i + 1, Len(s))

\* Mutant: the frame test is off by one.
ShouldEmitOffByOne(v, crying, fc, rate) ==
    crying /\ (IF v = "A" THEN (fc + 1) % rate = 0 ELSE (fc + 1) % 10 = 0)

\* Mutant: the isCrying test is missing.
ShouldEmitWhenIdle(v, crying, fc, rate) ==
    IF v = "A" THEN fc % rate = 0 ELSE fc % 10 = 0

\* Mutant: a Tear is emitted on every frame while Emitting.
ShouldEmitEveryFrame(v, crying, fc, rate) == crying

\* if (isCrying) { if (frameCount % emissionRate === 0) ... }
\* (variant B tests frameCount % 10)
ShouldEmit(v, crying, fc, rate) ==
    crying /\ (IF v = "A" THEN fc % rate = 0 ELSE fc % 10 = 0)

\* for (let img of collageImages) { img.update(); img.display(); }
CollagePass(items) ==
    LET updated == [i \in 1..Len(items) |-> CollageUpdate(items[i])]
    IN  [items |-> updated,
         drawn |-> [i \in 1..Len(items) |-> CollageDisplay(updated[i])]]

\* Mutant: a Tear is removed only when its life is below 0.
RECURSIVE TearPassLate(_, _, _)
TearPassLate(ts, i, out) ==
    IF i < 1 \/ i > Len(ts)
    THEN [tears |-> ts, drawn |-> out]
    ELSE LET t    == TearUpdate(ts[i])
             ts1  == [ts EXCEPT ![i] = t]
             out1 == Append(out, TearDisplay(t))
         IN  IF t.life < 0
             THEN TearPassLate(Splice(ts1, i), i - 1, out1)
             ELSE TearPassLate(ts1, i - 1, out1)

\* Mutant: the pass runs forward, for (let i = 0; i < tears.length; i++),
\* so that a splice moves the next Tear under the index just processed.
RECURSIVE TearPassForwardFrom(_, _, _)
TearPassForwardFrom(ts, j, out) ==
    IF j < 1 \/ j > Len(ts)
    THEN [tears |-> ts, drawn |-> out]
    ELSE LET t    == TearUpdate(ts[j])
             ts1  == [ts EXCEPT ![j] = t]
             out1 == Append(out, TearDisplay(t))
         IN  IF t.life <= 0
             THEN TearPassForwardFrom(Splice(ts1, j), j + 1, out1)
             ELSE TearPassForwardFrom(ts1, j + 1, out1)

TearPassForward(ts, i, out) == TearPassForwardFrom(ts, 1, out)

\* for (let i = tears.length - 1; i >= 0; i--) { update; display; splice }
\* ts is the array, i the (1-based) index, out the draw calls made so far.
RECURSIVE TearPass(_, _, _)
TearPass(ts, i, out) ==
    IF i < 1 \/ i > Len(ts)
    THEN [tears |-> ts, drawn |-> out]
    ELSE LET t    == TearUpdate(ts[i])
             ts1  == [ts EXCEPT ![i] = t]
             out1 == Append(out, TearDisplay(t))
         IN  IF t.life <= 0
             THEN TearPass(Splice(ts1, i), i - 1, out1)
             ELSE TearPass(ts1, i - 1, out1)

\* frameRate() < 30 ? 20 : 3   (variant B only)
Throttle(v, rate, lagging) ==
    IF v = "B" THEN (IF lagging THEN 20 ELSE 3) ELSE rate

\* Mutant: the new Tear is pushed after the pass over the Tears.
drawFrameEmitAfterPass(limit, cap) ==
    /\ frameCount < limit
    /\ LET fc    == frameCount + 1
           spawn == ShouldEmit(variant, isCrying, fc, emissionRate)
       IN  /\ spawn => created < cap
           /\ frameCount' = fc
           /\ now' = now + 1
           /\ created' = IF spawn THEN created + 1 ELSE created
           /\ idleFrames' = IF isCrying THEN 0
                            ELSE IF idleFrames < Lifespan(variant)
                            THEN idleFrames + 1
                            ELSE idleFrames
           \* 2. Handle Tear Emission, 4. Physics Update & Drawing (Tears)
           /\ \E vx \in VxSamples, vy \in VySamples,
                 img \in (IF spawn THEN TearImages(variant, activeTearSet)
                                   ELSE {""}) :
                 LET pass == TearPass(tears, Len(tears), <<>>)
                 IN  /\ tears' = IF spawn
                                 THEN Append(pass.tears,
                                             NewTear(variant, created + 1,
                                                     mouseX, mouseY, vx, vy, img))
                                 ELSE pass.tears
                     /\ canvasTears' = pass.drawn
           \* 3. Update & Draw Collage Images
           /\ LET collage == CollagePass(collageImages)
              IN  /\ collageImages' = collage.items
                  /\ canvasCollage' = collage.drawn
           \* the performance adjustment of variant B
           /\ \E lagging \in (IF variant = "B" THEN BOOLEAN ELSE {FALSE}) :
                 emissionRate' = Throttle(variant, emissionRate, lagging)
    /\ event' = "draw"
    /\ eventKey' = ""
    /\ UNCHANGED <<variant, mouseX, mouseY, isCrying, startTime,
                   activeTearSet, slideshowInterval, timers, ticks, inputs>>

\* One call of draw; at most limit frames are drawn and cap Tears made.
drawFrame(limit, cap) ==
    /\ frameCount < limit
    /\ LET fc    == frameCount + 1
           spawn == ShouldEmit(variant, isCrying, fc, emissionRate)
       IN  /\ spawn => created < cap
           /\ frameCount' = fc
           /\ now' = now + 1
           /\ created' = IF spawn THEN created + 1 ELSE created
           /\ idleFrames' = IF isCrying THEN 0
                            ELSE IF idleFrames < Lifespan(variant)
                            THEN idleFrames + 1
                            ELSE idleFrames
           \* 2. Handle Tear Emission, 4. Physics Update & Drawing (Tears)
           /\ \E vx \in VxSamples, vy \in VySamples,
                 img \in (IF spawn THEN TearImages(variant, activeTearSet)
                                   ELSE {""}) :
                 LET emitted == IF spawn
                                THEN Append(tears,
                                            NewTear(variant, created + 1,
                                                    mouseX, mouseY, vx, vy, img))
                                ELSE tears
                     pass    == TearPass(emitted, Len(emitted), <<>>)
                 IN  /\ tears' = pass.tears
                     /\ canvasTears' = pass.drawn
           \* 3. Update & Draw Collage Images
           /\ LET collage == CollagePass(collageImages)
              IN  /\ collageImages' = collage.items
                  /\ canvasCollage' = collage.drawn
           \* the performance adjustment of variant B
           /\ \E lagging \in (IF variant = "B" THEN BOOLEAN ELSE {FALSE}) :
                 emissionRate' = Throttle(variant, emissionRate, lagging)
    /\ event' = "draw"
    /\ eventKey' = ""
    /\ UNCHANGED <<variant, mouseX, mouseY, isCrying, startTime,
                   activeTearSet, slideshowInterval, timers, ticks, inputs>>

draw(limit) == drawFrame(limit, MaxTears)

----------------------------------------------------------------------------
(* Utility and interaction functions.  Each states the new values of the   *)
(* variables it may write; its caller leaves the others unchanged.         *)

\* Mutant: the toggle always selects set B.
ToggleSetStuck(set) == "B"

\* (activeTearSet === tearImagesSetA) ? tearImagesSetB : tearImagesSetA
ToggleSet(set) == IF set = "A" THEN "B" ELSE "A"

toggleTearSet == activeTearSet' = ToggleSet(activeTearSet)

\* Mutant: two CollageImages are pushed per call.
createCollageImageTwice(items) ==
    Append(Append(items, NewCollageImage), NewCollageImage)

\* collageImages.push(new CollageImage(random(slideshowImages)))
createCollageImage(items) == Append(items, NewCollageImage)

\* The handle setInterval returns: one the runtime does not hold.
NewHandle == CHOOSE h \in 1..(MaxTimers + 1) :
                 /\ h \notin timers
                 /\ \A g \in 1..(h - 1) : g \in timers

\* Mutant: the test for a running slideshow is missing.
startSlideshowUnguarded ==
    /\ collageImages' = createCollageImage(collageImages)
    /\ timers' = timers \cup {NewHandle}
    /\ slideshowInterval' = NewHandle
    /\ ticks' = 0

\* Mutant: the interval is set without the immediate createCollageImage().
startSlideshowNoImmediate ==
    IF slideshowInterval = Null
    THEN /\ collageImages' = collageImages
         /\ timers' = timers \cup {NewHandle}
         /\ slideshowInterval' = NewHandle
         /\ ticks' = 0
    ELSE UNCHANGED slideVars

startSlideshow ==
    IF slideshowInterval = Null
    THEN /\ collageImages' = createCollageImage(collageImages)
         /\ timers' = timers \cup {NewHandle}
         /\ slideshowInterval' = NewHandle
         /\ ticks' = 0
    ELSE UNCHANGED slideVars

\* Mutant: the collage is left on the canvas.
stopSlideshowKeepsImages ==
    IF slideshowInterval # Null
    THEN /\ timers' = timers \ {slideshowInterval}
         /\ slideshowInterval' = Null
         /\ collageImages' = collageImages
         /\ ticks' = 0
    ELSE UNCHANGED slideVars

\* Mutant: the interval is not cleared.
stopSlideshowNoCancel ==
    IF slideshowInterval # Null
    THEN /\ timers' = timers
         /\ slideshowInterval' = Null
         /\ collageImages' = <<>>
         /\ ticks' = 0
    ELSE UNCHANGED slideVars

stopSlideshow ==
    IF slideshowInterval # Null
    THEN /\ timers' = timers \ {slideshowInterval}
         /\ slideshowInterval' = Null
         /\ collageImages' = <<>>
         /\ ticks' = 0
    ELSE UNCHANGED slideVars

\* Mutant: the test for an emission under way is missing.
startCryingUnguarded ==
    /\ isCrying' = TRUE
    /\ startTime' = now
    /\ idleFrames' = 0

startCrying ==
    IF ~isCrying
    THEN /\ isCrying' = TRUE
         /\ startTime' = now
         /\ idleFrames' = 0
    ELSE UNCHANGED cryVars

stopCrying ==
    IF isCrying
    THEN /\ isCrying' = FALSE
         /\ startTime' = startTime
         /\ idleFrames' = 0
    ELSE UNCHANGED cryVars

----------------------------------------------------------------------------
(* Inputs *)

mousePressed ==
    /\ startCrying
    /\ UNCHANGED <<variant, activeTearSet>>
    /\ UNCHANGED <<slideVars, frameVars, pointerVars>>

mouseReleased ==
    /\ stopCrying
    /\ UNCHANGED <<variant, activeTearSet>>
    /\ UNCHANGED <<slideVars, frameVars, pointerVars>>

touchStarted ==
    /\ startCrying
    /\ UNCHANGED <<variant, activeTearSet>>
    /\ UNCHANGED <<slideVars, frameVars, pointerVars>>

touchEnded ==
    /\ stopCrying
    /\ UNCHANGED <<variant, activeTearSet>>
    /\ UNCHANGED <<slideVars, frameVars, pointerVars>>

\* Mutant: the t key also (re)starts the emission.
keyPressedToggleStartsCrying(key) ==
    IF key = " " /\ ~isCrying
    THEN /\ startCrying
         /\ UNCHANGED <<variant, activeTearSet>>
         /\ UNCHANGED <<slideVars, frameVars, pointerVars>>
    ELSE IF key = "s"
    THEN /\ IF slideshowInterval = Null THEN startSlideshow ELSE stopSlideshow
         /\ UNCHANGED <<variant, activeTearSet>>
         /\ UNCHANGED <<cryVars, frameVars, pointerVars>>
    ELSE IF key = "t"
    THEN /\ toggleTearSet
         /\ startCryingUnguarded
         /\ UNCHANGED variant
         /\ UNCHANGED <<slideVars, frameVars, pointerVars>>
    ELSE UNCHANGED sketchVars

keyPressed(key) ==
    IF key = " " /\ ~isCrying
    THEN /\ startCrying
         /\ UNCHANGED <<variant, activeTearSet>>
         /\ UNCHANGED <<slideVars, frameVars, pointerVars>>
    ELSE IF key = "s"
    THEN /\ IF slideshowInterval = Null THEN startSlideshow ELSE stopSlideshow
         /\ UNCHANGED <<variant, activeTearSet>>
         /\ UNCHANGED <<cryVars, frameVars, pointerVars>>
    ELSE IF key = "t"
    THEN /\ toggleTearSet
         /\ UNCHANGED variant
         /\ UNCHANGED <<cryVars, slideVars, frameVars, pointerVars>>
    ELSE UNCHANGED sketchVars

keyReleased(key) ==
    IF key = " " /\ isCrying
    THEN /\ stopCrying
         /\ UNCHANGED <<variant, activeTearSet>>
         /\ UNCHANGED <<slideVars, frameVars, pointerVars>>
    ELSE UNCHANGED sketchVars

\* The runtime moves the pointer (mouseX, mouseY follow the mouse or finger).
PointerMoved ==
    /\ \E p \in Pointers :
          /\ <<mouseX, mouseY>> # p
          /\ mouseX' = p[1]
          /\ mouseY' = p[2]
    /\ UNCHANGED <<variant, activeTearSet>>
    /\ UNCHANGED <<cryVars, slideVars, frameVars>>

\* The runtime runs the callback of a live interval: createCollageImage.
TimerFired ==
    /\ \E h \in timers :
          collageImages' = createCollageImage(collageImages)
    /\ ticks' = ticks + 1
    /\ UNCHANGED <<slideshowInterval, timers>>
    /\ UNCHANGED <<variant, activeTearSet>>
    /\ UNCHANGED <<cryVars, frameVars, pointerVars>>

\* startSlideshow and stopSlideshow called directly.
CallStartSlideshow ==
    /\ startSlideshow
    /\ UNCHANGED <<variant, activeTearSet>>
    /\ UNCHANGED <<cryVars, frameVars, pointerVars>>

CallStopSlideshow ==
    /\ stopSlideshow
    /\ UNCHANGED <<variant, activeTearSet>>
    /\ UNCHANGED <<cryVars, frameVars, pointerVars>>

----------------------------------------------------------------------------
(* Specifications *)

InitGlobals ==
    /\ frameCount = 0
    /\ now = 0
    /\ mouseX = 0
    /\ mouseY = 0
    /\ tears = <<>>
    /\ collageImages = <<>>
    /\ isCrying = FALSE
    /\ startTime = 0
    /\ emissionRate = INITIAL_EMISSION_RATE
    /\ activeTearSet = "A"
    /\ slideshowInterval = Null
    /\ timers = {}
    /\ created = 0
    /\ ticks = 0
    /\ idleFrames = 0
    /\ canvasTears = <<>>
    /\ canvasCollage = <<>>
    /\ inputs = 0
    /\ event = "setup"
    /\ eventKey = ""

Init == variant \in Variants /\ InitGlobals

\* An event other than a frame: the runtime calls the handler A.
Input(max, name, key, A) ==
    /\ inputs < max
    /\ inputs' = inputs + 1
    /\ event' = name
    /\ eventKey' = key
    /\ A

\* Every handler, every key, the interval callback and the frames.
Next ==
    \/ draw(MaxFrame)
    \/ Input(MaxInputs, "createCollageImage", "", TimerFired)
    \/ Input(MaxInputs, "mousePressed", "", mousePressed)
    \/ Input(MaxInputs, "mouseReleased", "", mouseReleased)
    \/ Input(MaxInputs, "touchStarted", "", touchStarted)
    \/ Input(MaxInputs, "touchEnded", "", touchEnded)
    \/ \E key \in Keys : Input(MaxInputs, "keyPressed", key, keyPressed(key))
    \/ \E key \in Keys : Input(MaxInputs, "keyReleased", key, keyReleased(key))
    \/ Input(MaxInputs, "mouseMoved", "", PointerMoved)
    \/ Input(MaxInputs, "startSlideshow", "", CallStartSlideshow)
    \/ Input(MaxInputs, "stopSlideshow", "", CallStopSlideshow)

Spec == Init /\ [][Next]_vars

\* The tears over a whole life: the slideshow is never started.
NextTears ==
    \/ draw(MaxLifeFrame)
    \/ Input(MaxInputs, "mousePressed", "", mousePressed)
    \/ Input(MaxInputs, "mouseReleased", "", mouseReleased)
    \/ Input(MaxInputs, "touchStarted", "", touchStarted)
    \/ Input(MaxInputs, "touchEnded", "", touchEnded)
    \/ \E key \in Keys \ {"s"} :
          Input(MaxInputs, "keyPressed", key, keyPressed(key))
    \/ \E key \in Keys : Input(MaxInputs, "keyReleased", key, keyReleased(key))
    \/ Input(MaxInputs, "mouseMoved", "", PointerMoved)

SpecTears == Init /\ [][NextTears]_vars

\* The slideshow over a few frames and more events: no tear is emitted.
NextSlides ==
    \/ draw(MaxSlideFrame)
    \/ Input(MaxSlideInputs, "createCollageImage", "", TimerFired)
    \/ Input(MaxSlideInputs, "keyPressed", "s", keyPressed("s"))
    \/ Input(MaxSlideInputs, "startSlideshow", "", CallStartSlideshow)
    \/ Input(MaxSlideInputs, "stopSlideshow", "", CallStopSlideshow)

SpecSlides == Init /\ [][NextSlides]_vars

\* The slideshow over a whole fade-in: no tear is emitted.
NextFade ==
    \/ draw(MaxFadeFrame)
    \/ Input(MaxInputs, "createCollageImage", "", TimerFired)
    \/ Input(MaxInputs, "keyPressed", "s", keyPressed("s"))

SpecFade == Init /\ [][NextFade]_vars

\* The emission held over a whole life and more: the button only.
NextHold ==
    \/ drawFrame(MaxHoldFrame, MaxHeldTears)
    \/ Input(MaxInputs, "mousePressed", "", mousePressed)
    \/ Input(MaxInputs, "mouseReleased", "", mouseReleased)

SpecHold == Init /\ [][NextHold]_vars

\* The same with the runtime's frame loop running: p5 calls draw again and
\* again.  drawFrame is enabled exactly while a frame of the run is left to
\* draw, so its weak fairness, WF_vars(drawFrame(MaxHoldFrame,
\* MaxHeldTears)), says that every frame of the run is drawn in the end;
\* it is stated in that form, which needs no ENABLED of the whole pass.
SpecHoldFair ==
    Init /\ [][NextHold]_vars /\ []<>(frameCount = MaxHoldFrame)

----------------------------------------------------------------------------
(* Properties *)

TearIds(ts) == {ts[i].id : i \in 1..Len(ts)}

IsFrame == frameCount' # frameCount

\* C1: in variant A, a frame drawn while Emitting appends exactly one Tear
\* when the frame counter is a multiple of 3 and none otherwise; the new
\* Tear was constructed at the pointer of that frame (its position is one
\* advance away from it) with an image of the tear set active at that frame.
C1_EmitsEveryThirdFrame ==
    [][ (variant = "A" /\ isCrying /\ IsFrame) =>
          LET new == TearIds(tears') \ TearIds(tears)
          IN  IF frameCount' % 3 = 0
              THEN /\ created' = created + 1
                   /\ new = {created'}
                   /\ Len(tears') >= 1
                   /\ LET t == tears'[Len(tears')]
                      IN  /\ t.id = created'
                          /\ t.x - t.vx = mouseX
                          /\ t.y - t.vy = mouseY
                          /\ t.img \in TearImages(variant, activeTearSet)
                          /\ t.life = t.lifespan - 1
              ELSE /\ created' = created
                   /\ new = {} ]_vars

\* Variant A has just emitted its second Tear, at a pointer that was moved.
C1_Witness ==
    /\ variant = "A" /\ isCrying /\ event = "draw"
    /\ frameCount = 6 /\ created = 2 /\ Len(tears) = 2
    /\ mouseX = 40 /\ mouseY = 60
    /\ tears[2].id = 2
    /\ tears[2].x - tears[2].vx = 40
    /\ tears[2].y - tears[2].vy = 60

\* C2: no step taken while Idle (a frame, an interval callback, a key or
\* any other event) constructs a Tear or adds one to the active set.
C2_IdleCreatesNoTear ==
    [][ ~isCrying =>
          /\ created' = created
          /\ TearIds(tears') \subseteq TearIds(tears) ]_vars

\* Variant B has drawn its emission frame 10 while Idle, after the interval
\* callback ran; no Tear was ever constructed.
C2_Witness ==
    /\ variant = "B" /\ ~isCrying /\ event = "draw"
    /\ frameCount = 10 /\ created = 0 /\ tears = <<>>
    /\ Len(collageImages) = 2

\* C3: a frame lowers the remaining life of every active Tear by exactly 1
\* and no other step changes it; a Tear leaves the active set in the frame
\* that brings its life to 0, after being drawn in that frame with life 0,
\* and never comes back (ids are never reused); between frames every
\* active Tear has life above 0.
C3_LifeCountsDownToRemoval ==
    /\ [](\A i \in 1..Len(tears) :
            /\ tears[i].life >= 1
            /\ tears[i].id <= created
            /\ \A j \in 1..Len(tears) : tears[j].id = tears[i].id => j = i)
    /\ [][ /\ ~IsFrame => tears' = tears
           /\ IsFrame =>
                \A i \in 1..Len(tears) :
                   LET t == tears[i]
                   IN  IF t.life - 1 > 0
                       THEN \E j \in 1..Len(tears') :
                               /\ tears'[j].id = t.id
                               /\ tears'[j].life = t.life - 1
                       ELSE /\ t.id \notin TearIds(tears')
                            /\ \E k \in 1..Len(canvasTears') :
                                  /\ canvasTears'[k].id = t.id
                                  /\ canvasTears'[k].life = 0 ]_vars

\* A Tear has just been drawn with life 0 and removed, while a younger one
\* stays in the active set.
C3_Witness ==
    /\ event = "draw"
    /\ Len(tears) = 1
    /\ \E k \in 1..Len(canvasTears) :
          /\ canvasTears[k].life = 0
          /\ canvasTears[k].id \notin TearIds(tears)
          /\ canvasTears[k].id < tears[1].id

\* C4: every active Tear, and every Tear drawn, has 0 <= life <= lifespan,
\* the lifespan being the one of the variant.
C4_LifeWithinLifespan ==
    /\ \A i \in 1..Len(tears) :
          /\ tears[i].lifespan = Lifespan(variant)
          /\ 0 <= tears[i].life
          /\ tears[i].life <= tears[i].lifespan
    /\ \A k \in 1..Len(canvasTears) :
          /\ 0 <= canvasTears[k].life
          /\ canvasTears[k].life <= canvasTears[k].lifespan

\* Variant B: a Tear was drawn at life 0 in the last frame of its life.
C4_Witness ==
    /\ variant = "B"
    /\ created = 1
    /\ tears = <<>>
    /\ Len(canvasTears) = 1
    /\ canvasTears[1].life = 0
    /\ canvasTears[1].lifespan = Lifespan("B")

IsStopEvent ==
    \/ event' = "stopSlideshow"
    \/ event' = "keyPressed" /\ eventKey' = "s" /\ slideshowInterval # Null

\* C5: the runtime never holds more than one interval, and it is the one
\* slideshowInterval names; a call of startSlideshow while the slideshow
\* is Running adds no interval and no CollageImage.
C5_OneSchedule ==
    /\ [](/\ Cardinality(timers) <= 1
          /\ slideshowInterval = Null => timers = {}
          /\ slideshowInterval # Null => timers = {slideshowInterval})
    /\ [][ (slideshowInterval # Null /\ event' = "startSlideshow") =>
             UNCHANGED <<slideshowInterval, timers, collageImages>> ]_vars

\* startSlideshow was called while the slideshow was Running: its only
\* CollageImage has already faded in by one frame.
C5_Witness ==
    /\ event = "startSlideshow"
    /\ slideshowInterval # Null
    /\ Len(collageImages) = 1
    /\ collageImages[1].opacity = 5
    /\ canvasCollage = <<5>>

C7_NoCallbackAfterStop ==
    [][ slideshowInterval' = Null =>
          /\ timers' = {}
          /\ collageImages' = <<>>
          /\ event' # "createCollageImage" ]_vars

\* The s key stopped a slideshow whose callback had run (the last frame
\* drew two CollageImages): the interval is gone with the collection.
C7_Witness ==
    /\ event = "keyPressed" /\ eventKey = "s"
    /\ slideshowInterval = Null
    /\ timers = {}
    /\ collageImages = <<>>
    /\ Len(canvasCollage) = 2
    /\ inputs = 3

\* C8: a CollageImage starts at opacity 0; a frame adds 5 to an opacity
\* below 255 and leaves 255 alone; no other step changes an opacity; every
\* opacity, and every opacity drawn, is a multiple of 5 in 0..255.
C8_OpacityFadesInTo255 ==
    /\ [](/\ \A i \in 1..Len(collageImages) :
                /\ collageImages[i].opacity \in 0..255
                /\ collageImages[i].opacity % 5 = 0
          /\ \A k \in 1..Len(canvasCollage) : canvasCollage[k] \in 0..255)
    /\ [][ /\ IsFrame =>
                /\ Len(collageImages') = Len(collageImages)
                /\ Len(canvasCollage') = Len(collageImages)
                /\ \A i \in 1..Len(collageImages) :
                      /\ collageImages'[i].opacity =
                            IF collageImages[i].opacity < 255
                            THEN collageImages[i].opacity + 5
                            ELSE collageImages[i].opacity
                      /\ canvasCollage'[i] = collageImages'[i].opacity
           /\ ~IsFrame =>
                \A i \in 1..Len(collageImages') :
                   IF i <= Len(collageImages)
                   THEN collageImages'[i] = collageImages[i]
                   ELSE collageImages'[i].opacity = 0 ]_vars

\* A CollageImage reached 255 two frames ago and is still drawn at 255,
\* next to a younger one that is still fading in.
C8_Witness ==
    /\ event = "draw"
    /\ frameCount = 53
    /\ Len(collageImages) = 2
    /\ collageImages[1].opacity = 255
    /\ canvasCollage[1] = 255
    /\ collageImages[2].opacity \in 5..250

\* C9: the active tear set is always set A or set B, and is set A until an
\* event is handled; the t key changes it to the other set, from which one
\* more toggle leads back.
C9_DoubleToggleRestores ==
    /\ [](/\ activeTearSet \in {"A", "B"}
          /\ inputs = 0 => activeTearSet = "A")
    /\ [][ (event' = "keyPressed" /\ eventKey' = "t") =>
             /\ activeTearSet' # activeTearSet
             /\ ToggleSet(activeTearSet') = activeTearSet ]_vars

\* The t key was pressed twice in a row, with a frame in between: the active
\* set is set A again.
C9_Witness ==
    /\ event = "keyPressed" /\ eventKey = "t"
    /\ inputs = 2
    /\ frameCount = 1
    /\ activeTearSet = "A"

IsStartCryingEvent ==
    \/ event' \in {"mousePressed", "touchStarted"}
    \/ event' = "keyPressed" /\ eventKey' = " "

IsStopCryingEvent ==
    \/ event' \in {"mouseReleased", "touchEnded"}
    \/ event' = "keyReleased" /\ eventKey' = " "

\* C10: a pointer-down, touch-start or space-key-down received while Idle
\* leads to Emitting and sets startTime to the current time; a pointer-up,
\* touch-end or space-key-up received while Emitting leads to Idle; a start
\* event while Emitting, a stop event while Idle, and every other step,
\* change neither isCrying nor startTime; a stop never writes startTime.
C10_EmissionStateMachine ==
    [][ /\ (IsStartCryingEvent /\ ~isCrying) =>
              (isCrying' /\ startTime' = now)
        /\ (IsStopCryingEvent /\ isCrying) =>
              (~isCrying' /\ startTime' = startTime)
        /\ (IsStartCryingEvent /\ isCrying) => UNCHANGED <<isCrying, startTime>>
        /\ (IsStopCryingEvent /\ ~isCrying) => UNCHANGED <<isCrying, startTime>>
        /\ (~IsStartCryingEvent /\ ~IsStopCryingEvent) =>
              UNCHANGED <<isCrying, startTime>> ]_vars

\* A touch-start arrived while Emitting: startTime still holds the earlier
\* activation, not the current time.
C10_Witness ==
    /\ event = "touchStarted"
    /\ isCrying
    /\ inputs = 2
    /\ 0 < startTime
    /\ startTime < now

IsStartSlideshowEvent ==
    \/ event' = "startSlideshow"
    \/ event' = "keyPressed" /\ eventKey' = "s" /\ slideshowInterval = Null

\* C11: a start of the Stopped slideshow (startSlideshow, or the s key)
\* makes it Running with a collection of exactly one CollageImage, of
\* opacity 0; each run of the interval callback happens while Running and
\* appends exactly one more, leaving the others as they were; a frame
\* neither adds nor removes a CollageImage.  Hence, while Running, the
\* collection holds ticks + 1 items, ticks being the number of runs of
\* the callback since the start.
C11_StartThenOnePerTick ==
    /\ [](slideshowInterval # Null => Len(collageImages) = ticks + 1)
    /\ [][ /\ (slideshowInterval = Null /\ IsStartSlideshowEvent) =>
                /\ slideshowInterval' # Null
                /\ ticks' = 0
                /\ Len(collageImages') = 1
                /\ collageImages'[1].opacity = 0
           /\ event' = "createCollageImage" =>
                /\ slideshowInterval # Null
                /\ slideshowInterval' = slideshowInterval
                /\ ticks' = ticks + 1
                /\ Len(collageImages') = Len(collageImages) + 1
                /\ SubSeq(collageImages', 1, Len(collageImages)) = collageImages
                /\ collageImages'[Len(collageImages')].opacity = 0
           /\ IsFrame =>
                /\ Len(collageImages') = Len(collageImages)
                /\ ticks' = ticks ]_vars

\* The slideshow was started and its callback ran twice, with frames in
\* between: the last frame drew three CollageImages of three opacities.
C11_Witness ==
    /\ event = "draw"
    /\ slideshowInterval # Null
    /\ ticks = 2
    /\ Len(collageImages) = 3
    /\ collageImages[1].opacity > collageImages[2].opacity
    /\ collageImages[2].opacity > collageImages[3].opacity
    /\ collageImages[3].opacity > 0

\* C12: in variant B every frame sets the emission divisor to 20 or to 3
\* (by the measured frame rate), and a frame drawn while Emitting
\* constructs a Tear exactly when the frame counter is a multiple of the
\* divisor current at that frame.
C12_AdaptiveDivisorDrivesEmission ==
    [][ (variant = "B" /\ IsFrame) =>
          /\ emissionRate' \in {3, 20}
          /\ isCrying =>
                (created' = created + 1 <=> frameCount' % emissionRate = 0) ]_vars

\* C13: a Tear is drawn with alpha = 255 * life / lifespan and scale =
\* 0.1 + 0.9 * life / lifespan (as numerators: alphaNum = 255 * life over
\* lifespan, scaleNum = lifespan + 9 * life over 10 * lifespan); the draw
\* call of a Tear at life 0 has alpha 0 and scale 0.1, the one of a Tear at
\* life = lifespan has alpha 255 and scale 1.0; from one frame to the next
\* the alpha and the scale of a Tear's draw calls do not increase.
C13_AlphaScaleAffineInLife ==
    /\ [](/\ \A k \in 1..Len(canvasTears) :
                LET d == canvasTears[k]
                IN  /\ d.alphaNum = 255 * d.life
                    /\ d.scaleNum = d.lifespan + 9 * d.life
                    /\ d.life = 0 => (d.alphaNum = 0 /\ d.scaleNum = d.lifespan)
          /\ \A i \in 1..Len(tears) :
                LET atZero == TearDisplay([tears[i] EXCEPT !.life = 0])
                    atFull == TearDisplay([tears[i] EXCEPT
                                              !.life = tears[i].lifespan])
                IN  /\ atZero.alphaNum = 0
                    /\ 10 * atZero.scaleNum = 1 * (10 * atZero.lifespan)
                    /\ atFull.alphaNum = 255 * atFull.lifespan
                    /\ atFull.scaleNum = 10 * atFull.lifespan)
    /\ [][ \A k \in 1..Len(canvasTears), j \in 1..Len(canvasTears') :
             canvasTears'[j].id = canvasTears[k].id =>
                /\ canvasTears'[j].alphaNum <= canvasTears[k].alphaNum
                /\ canvasTears'[j].scaleNum <= canvasTears[k].scaleNum
                /\ canvasTears'[j].lifespan = canvasTears[k].lifespan ]_vars

\* Variant A drew two Tears in one frame: the older at life 0 (alpha 0,
\* scale 0.1), the younger at life 3 of 10 (alpha 76.5, scale 0.37).
C13_Witness ==
    /\ variant = "A"
    /\ Len(canvasTears) = 2
    /\ \E k, j \in 1..2 :
          /\ canvasTears[k].life = 0
          /\ canvasTears[k].alphaNum = 0
          /\ canvasTears[k].scaleNum = canvasTears[k].lifespan
          /\ canvasTears[j].life = 3
          /\ canvasTears[j].alphaNum = 765
          /\ canvasTears[j].scaleNum = 37

\* C14: a frame's pass makes exactly one draw call per Tear of the active
\* set at its start (the Tears of the state before, then the one this frame
\* constructed), in reverse index order, each showing the Tear advanced
\* exactly once (life one lower, position one step further); the Tears left
\* in the set are exactly those whose life is still above 0, advanced once
\* and in their former order.
C14_PassProcessesEachOnce ==
    [][ IsFrame =>
          LET n       == Len(tears)
              spawned == created' = created + 1
              m       == IF spawned THEN n + 1 ELSE n
          IN  /\ Len(canvasTears') = m
              /\ \A i \in 1..n :
                    LET t == tears[i]
                        d == canvasTears'[m - i + 1]
                    IN  /\ d.id = t.id
                        /\ d.life = t.life - 1
                        /\ d.x = t.x + t.vx
                        /\ d.y = t.y + (t.vy + t.ay)
                        /\ (t.life - 1 > 0) <=> (t.id \in TearIds(tears'))
              /\ spawned =>
                    /\ canvasTears'[1].id = created'
                    /\ canvasTears'[1].life = canvasTears'[1].lifespan - 1
                    /\ created' \in TearIds(tears')
              /\ \A j \in 1..Len(tears') :
                    /\ tears'[j].life > 0
                    /\ \E k \in 1..m :
                          /\ canvasTears'[k].id = tears'[j].id
                          /\ canvasTears'[k].life = tears'[j].life
                          /\ canvasTears'[k].x = tears'[j].x
                          /\ canvasTears'[k].y = tears'[j].y
                    /\ \A k \in 1..Len(tears') :
                          j < k => tears'[j].id < tears'[k].id ]_vars

\* Variant A: the pass drew the younger Tear first, then the older one at
\* life 0, and spliced the older one from the head of the array: the
\* younger one was neither skipped nor drawn twice.
C14_Witness ==
    /\ variant = "A"
    /\ event = "draw"
    /\ Len(canvasTears) = 2
    /\ canvasTears[1].id = 2
    /\ canvasTears[2].id = 1
    /\ canvasTears[2].life = 0
    /\ Len(tears) = 1
    /\ tears[1].id = 2
    /\ tears[1].life = canvasTears[1].life

IsToggleEvent == event' = "keyPressed" /\ eventKey' = "t"

\* C15: the t key, in Idle and in Emitting alike, changes the active tear
\* set to the other one and nothing else: not the emission state, the
\* activation timestamp, the slideshow's interval, the collage, the active
\* Tears, the frame counter or the pointer.  No step changes the image of
\* a Tear in the active set, and a Tear a frame constructs has an image of
\* the set active at that frame.
C15_ToggleChangesOnlyTheSet ==
    [][ /\ IsToggleEvent =>
              /\ activeTearSet' = (IF activeTearSet = "A" THEN "B" ELSE "A")
              /\ UNCHANGED <<isCrying, startTime, slideshowInterval, timers,
                             collageImages, tears, created, frameCount,
                             emissionRate, mouseX, mouseY>>
        /\ ~IsToggleEvent => activeTearSet' = activeTearSet
        /\ \A i \in 1..Len(tears), j \in 1..Len(tears') :
              tears'[j].id = tears[i].id => tears'[j].img = tears[i].img
        /\ \A j \in 1..Len(tears') :
              tears'[j].id \notin TearIds(tears) =>
                 tears'[j].img \in TearImages(variant, activeTearSet) ]_vars

\* The t key was pressed while Emitting, between two emissions: the older
\* Tear keeps its image of set A, the younger one has an image of set B.
C15_Witness ==
    /\ isCrying
    /\ activeTearSet = "B"
    /\ Len(tears) = 2
    /\ tears[1].img \in TEAR_FILENAMES_A(variant)
    /\ tears[1].img \notin TEAR_FILENAMES_B(variant)
    /\ tears[2].img \in TEAR_FILENAMES_B(variant)
    /\ tears[2].img \notin TEAR_FILENAMES_A(variant)

\* C16: in every reachable state, the collection is empty when the
\* slideshow is Stopped (slideshowInterval is null) and holds at least one
\* CollageImage when it is Running.
C16_SpawnerAgreesWithCollage ==
    /\ slideshowInterval = Null => collageImages = <<>>
    /\ slideshowInterval # Null => Len(collageImages) >= 1

\* The s key restarted a slideshow that had been stopped with two
\* CollageImages on the canvas: it is Running with one new CollageImage.
C16_Witness ==
    /\ event = "keyPressed" /\ eventKey = "s"
    /\ inputs = 4
    /\ slideshowInterval # Null
    /\ Len(collageImages) = 1
    /\ collageImages[1].opacity = 0
    /\ Len(canvasCollage) = 2

C18_IdleSetEventuallyEmpty ==
    /\ []((~isCrying /\ idleFrames >= Lifespan(variant)) => tears = <<>>)
    /\ [][ (~isCrying /\ tears = <<>>) => tears' = <<>> ]_vars
    /\ ((~isCrying /\ frameCount + Lifespan(variant) <= MaxHoldFrame)
           ~> (isCrying \/ tears = <<>>))

\* The button was pressed and released; lifespan frames later the Tears
\* emitted in between are all gone.
C18_Witness ==
    /\ ~isCrying
    /\ event = "draw"
    /\ inputs = 2
    /\ created >= 1
    /\ idleFrames = Lifespan(variant)
    /\ Len(canvasTears) = 0
    /\ tears = <<>>

\* C19: the frame that constructs a Tear advances it before drawing it,
\* so its first draw call is at life = lifespan - 1; each later frame draws
\* it at a life one lower, down to 0, after which it is neither drawn nor
\* in the active set again.  Hence a draw call at life l is the Tear's
\* (lifespan - l)-th, made lifespan - 1 - l frames after an emission frame;
\* no draw call is at life = lifespan (alpha 255, scale 1.0), and a Tear
\* in the set between frames has 1 <= life <= lifespan - 1.
C19_AdvancedInCreationFrame ==
    /\ [](LET I == IF variant = "A" THEN 3 ELSE 10
          IN  /\ \A k \in 1..Len(canvasTears) :
                    LET d    == canvasTears[k]
                        born == frameCount - (d.lifespan - 1 - d.life)
                    IN  /\ d.life \in 0..(d.lifespan - 1)
                        /\ d.alphaNum < 255 * d.lifespan
                        /\ d.scaleNum < 10 * d.lifespan
                        /\ born >= 1
                        /\ born % I = 0
              /\ \A i \in 1..Len(tears) :
                    /\ tears[i].life \in 1..(tears[i].lifespan - 1)
                    /\ \E k \in 1..Len(canvasTears) :
                          /\ canvasTears[k].id = tears[i].id
                          /\ canvasTears[k].life = tears[i].life)
    /\ [][ IsFrame =>
             /\ created' = created + 1 =>
                   /\ canvasTears'[1].id = created'
                   /\ canvasTears'[1].life = canvasTears'[1].lifespan - 1
             /\ \A k \in 1..Len(canvasTears) :
                   LET d == canvasTears[k]
                   IN  IF d.life > 0
                       THEN \E j \in 1..Len(canvasTears') :
                               /\ canvasTears'[j].id = d.id
                               /\ canvasTears'[j].life = d.life - 1
                       ELSE /\ d.id \notin TearIds(tears')
                            /\ \A j \in 1..Len(canvasTears') :
                                  canvasTears'[j].id # d.id ]_vars

\* Variant A: the only Tear, constructed in frame 3, got its last draw
\* call, at life 0, in the lifespan-th frame counted from frame 3, and is
\* gone from the set.
C19_Witness ==
    /\ variant = "A"
    /\ ~isCrying
    /\ event = "draw"
    /\ created = 1
    /\ frameCount = 3 + Lifespan("A") - 1
    /\ Len(canvasTears) = 1
    /\ canvasTears[1].id = 1
    /\ canvasTears[1].life = 0
    /\ tears = <<>>

====
